---- MODULE Spec2Model ----
(***************************************************************************)
(* NZ Lotto simulator (CODE_BASE.py): the ticket parser, the scoring       *)
(* engine, the tally ledger and the autorun loop as a state machine.       *)
(*                                                                         *)
(* Money is counted in units of ten cents (0.70 -> 7, 2.80 -> 28), the     *)
(* finest unit in which every cost and payout of the source is a whole     *)
(* number.  The source adds Python floats; rounding of float addition is   *)
(* not modelled.                                                           *)
(*                                                                         *)
(* An optional value (Python None or a value) is a sequence of length 0    *)
(* or 1.  A raw ticket line is a sequence of tokens; a token is a record   *)
(* [k, v]: k = "num" for a token int() converts (v its value), "junk" for  *)
(* one it raises on, "PB" for the bare marker, "PB=" for PB=<v> with a     *)
(* numeric v, "PB=?" for PB=<non-number>, "#" for a leading comment mark   *)
(* and "TAB" for the tab character that starts the display-only column.    *)
(***************************************************************************)
EXTENDS Integers, Sequences, FiniteSets, TLC

\* ------------------------------------------------------------ constants

COST_LOTTO_ONLY == 7
COST_LOTTO_PB == 15
COST_STRIKE == 10

LOTTO_NO_PB == <<10000000, 235000, 6740, 480, 260, 210, 28>>
LOTTO_WITH_PB == <<300000000, 325600, 8500, 980, 510, 410, 178>>
STRIKE_PAYOUT == <<10, 770, 5450, 10000000>>

DEFAULT_SPEED == 10000

\* the number space of the main game, 1..NUM_MAX, and of the Powerball
NUM_MAX == 40
PB_MAX == 10

\* ---------------------------------------------------------------- bounds

\* ticket lines of the scoring runs take their numbers from 1..PoolN
PoolN == 10
\* draw cycles that score at least one line, per run
MaxDraws == 2
\* lines the ticket Text widget holds when QP10 or a SYSTEM wheel adds to it
MaxTicketLines == 10

\* ----------------------------------------------------------------- state

VARIABLES
  ticket_text,       \* the ticket Text widget: a sequence of raw lines
  stats,             \* hit count per prize code
  paid,              \* amount paid per prize code
  spend,             \* aggregate spend
  returns,           \* aggregate returns
  draw_number,       \* draw counter
  speed_var,         \* draws per second
  powerball_var,     \* include Powerball in new lines
  strike_var,        \* play Strike per line
  V,                 \* base numbers for SYSTEM wheels
  base_numbers_var,  \* the base numbers display string
  running,           \* state["running"]
  after_id,          \* state["after_id"]: optional timer id
  timers,            \* the timer callbacks Tk holds scheduled
  batch_left,        \* draws left in the batch loop of schedule_next (0: idle)
  status_var,        \* the status bar: the message, without the figures in it
  last_draw,         \* the last-draw labels: optional draw
  msgbox             \* the message box on screen ("" when none)

vars == <<ticket_text, stats, paid, spend, returns, draw_number, speed_var,
          powerball_var, strike_var, V, base_numbers_var, running, after_id,
          timers, batch_left, status_var, last_draw, msgbox>>

None == <<>>
Some(x) == <<x>>

Codes == ({"D"} \X (1..7)) \cup ({"S"} \X (1..4))

Range(s) == {s[i] : i \in 1..Len(s)}

Min(a, b) == IF a <= b THEN a ELSE b
Max(a, b) == IF a >= b THEN a ELSE b

\* ------------------------------------------------------ formatting, parsing

Tok(k, v) == [k |-> k, v |-> v]
Num(n) == Tok("num", n)
Junk == Tok("junk", 0)
Tab == Tok("TAB", 0)

\* f"{n:02d}": the two digits of n (n < 100)
z2(n) == <<n \div 10, n % 10>>

\* int() of the text z2 wrote
IntOfDigits(d) == 10 * d[1] + d[2]

\* The raw line add_ticket_line inserts: the numbers zero-padded, then
\* "| PB nn" when a Powerball is given (the bar is a separator, not a
\* token), then a tab and the first four numbers when Strike is on.
add_ticket_line(nums, pb, strike) ==
  LET left == [i \in 1..Len(nums) |-> Num(IntOfDigits(z2(nums[i])))]
      withPb == IF pb # None
                  THEN left \o <<Tok("PB", 0), Num(IntOfDigits(z2(pb[1])))>>
                  ELSE left
  IN IF strike
       THEN withPb \o <<Tab>> \o
            [i \in 1..Min(4, Len(nums)) |-> Num(IntOfDigits(z2(nums[i])))]
       ELSE withPb

\* str.strip() on a raw line: leading and trailing tabs go
RECURSIVE StripTabs(_)
StripTabs(raw) ==
  IF raw = <<>> THEN raw
  ELSE IF raw[1].k = "TAB" THEN StripTabs(Tail(raw))
  ELSE IF raw[Len(raw)].k = "TAB" THEN StripTabs(SubSeq(raw, 1, Len(raw) - 1))
  ELSE raw

\* s.split("\t", 1)[0]: everything before the first tab
RECURSIVE LeftOfTab(_)
LeftOfTab(s) ==
  IF s = <<>> THEN <<>>
  ELSE IF s[1].k = "TAB" THEN <<>>
  ELSE <<s[1]>> \o LeftOfTab(Tail(s))

\* The while loop over the tokens of one line: the numbers collected and the
\* Powerball declared last.  i is 1-based.
RECURSIVE ScanTokens(_, _, _, _)
ScanTokens(tokens, i, nums, pb) ==
  IF i > Len(tokens) THEN [nums |-> nums, pb |-> pb]
  ELSE LET tok == tokens[i] IN
    IF tok.k = "PB" /\ i + 1 <= Len(tokens)
      THEN IF tokens[i + 1].k = "num"
             THEN ScanTokens(tokens, i + 2, nums, Some(tokens[i + 1].v))
             ELSE ScanTokens(tokens, i + 2, nums, pb)
    ELSE IF tok.k = "PB=" THEN ScanTokens(tokens, i + 1, nums, Some(tok.v))
    ELSE IF tok.k = "PB=?" THEN ScanTokens(tokens, i + 1, nums, pb)
    ELSE IF tok.k = "num" THEN ScanTokens(tokens, i + 1, Append(nums, tok.v), pb)
    ELSE ScanTokens(tokens, i + 1, nums, pb)

InMainRange(n) == 1 <= n /\ n <= NUM_MAX

\* One raw line: None when it is skipped or dropped, else Some(line).
ParseLine(raw) ==
  LET s == StripTabs(raw) IN
  IF s = <<>> \/ s[1].k = "#" THEN None
  ELSE LET scan == ScanTokens(LeftOfTab(s), 1, <<>>, None)
           kept == SelectSeq(scan.nums, InMainRange)
           nums == SubSeq(kept, 1, Min(6, Len(kept)))
           pb == IF scan.pb # None /\ ~(1 <= scan.pb[1] /\ scan.pb[1] <= PB_MAX)
                   THEN None ELSE scan.pb
       IN IF Len(nums) < 6 THEN None ELSE Some([nums |-> nums, pb |-> pb])

RECURSIVE parse_ticket_lines(_)
parse_ticket_lines(text) ==
  IF text = <<>> THEN <<>>
  ELSE ParseLine(text[1]) \o parse_ticket_lines(Tail(text))

\* ------------------------------------------------------------------ scoring

\* award_lotto setting the amount paid instead of adding to it.
award_lotto_SetsPaid(L, division, powerball_matched) ==
  LET code == <<"D", division>>
      amount == (IF powerball_matched THEN LOTTO_WITH_PB ELSE LOTTO_NO_PB)[division]
  IN [stats |-> [L.stats EXCEPT ![code] = @ + 1],
      paid |-> [L.paid EXCEPT ![code] = amount]]

\* The ledger a scoring pass works on: [stats, paid].
award_lotto(L, division, powerball_matched) ==
  LET code == <<"D", division>>
      amount == (IF powerball_matched THEN LOTTO_WITH_PB ELSE LOTTO_NO_PB)[division]
  IN [stats |-> [L.stats EXCEPT ![code] = @ + 1],
      paid |-> [L.paid EXCEPT ![code] = @ + amount]]

award_strike(L, hits) ==
  LET code == <<"S", hits>>
  IN [stats |-> [L.stats EXCEPT ![code] = @ + 1],
      paid |-> [L.paid EXCEPT ![code] = @ + STRIKE_PAYOUT[hits]]]

\* DivisionOf with the bonus tests after the plain ones: they never match.
DivisionOf_BonusLate(m, b) ==
  IF m = 6 THEN 1
  ELSE IF m = 5 THEN 3
  ELSE IF m = 5 /\ b THEN 2
  ELSE IF m = 4 THEN 5
  ELSE IF m = 4 /\ b THEN 4
  ELSE IF m = 3 THEN 7
  ELSE IF m = 3 /\ b THEN 6
  ELSE 0

\* division by (m, b): 0 is no division
DivisionOf(m, b) ==
  IF m = 6 THEN 1
  ELSE IF m = 5 /\ b THEN 2
  ELSE IF m = 5 THEN 3
  ELSE IF m = 4 /\ b THEN 4
  ELSE IF m = 4 THEN 5
  ELSE IF m = 3 /\ b THEN 6
  ELSE IF m = 3 THEN 7
  ELSE 0

\* LineCost without the Strike surcharge.
LineCost_NoStrike(line, strike_on) ==
  IF line.pb # None THEN COST_LOTTO_PB ELSE COST_LOTTO_ONLY

LineCost(line, strike_on) ==
  (IF line.pb # None THEN COST_LOTTO_PB ELSE COST_LOTTO_ONLY)
    + (IF strike_on THEN COST_STRIKE ELSE 0)

MainMatches(nums, main6) ==
  Cardinality({i \in 1..Len(nums) : nums[i] \in Range(main6)})

\* StrikeHits matching the first four numbers in any position.
StrikeHits_Unordered(nums, main6) ==
  Cardinality({i \in 1..4 : nums[i] \in {main6[j] : j \in 1..4}})

StrikeHits(nums, main6) ==
  Cardinality({i \in 1..4 : nums[i] = main6[i]})

\* Scores one line: the ledger after its awards and the cost of the line.
score_line_against_draw(L, line, main6, bonus, pb_draw, strike_on) ==
  LET nums == line.nums
      m == MainMatches(nums, main6)
      b == bonus \in Range(nums)
      division == DivisionOf(m, b)
      pb_matched == line.pb # None /\ line.pb[1] = pb_draw
      L1 == IF division # 0 THEN award_lotto(L, division, pb_matched) ELSE L
      hits == StrikeHits(nums, main6)
      L2 == IF strike_on /\ hits >= 1 THEN award_strike(L1, hits) ELSE L1
  IN [L |-> L2, cost |-> LineCost(line, strike_on)]

\* The for loop of do_draw_once over the parsed lines.
RECURSIVE ScoreLines(_, _, _, _, _)
ScoreLines(L, total_cost, lines, d, strike_on) ==
  IF lines = <<>> THEN [L |-> L, cost |-> total_cost]
  ELSE LET r == score_line_against_draw(L, lines[1], d.main6, d.bonus, d.pb, strike_on)
       IN ScoreLines(r.L, total_cost + r.cost, Tail(lines), d, strike_on)

\* sum(v.get() for v in paid.values())
SumPaid(p) ==
  p[<<"D", 1>>] + p[<<"D", 2>>] + p[<<"D", 3>>] + p[<<"D", 4>>] + p[<<"D", 5>>]
    + p[<<"D", 6>>] + p[<<"D", 7>>]
    + p[<<"S", 1>>] + p[<<"S", 2>>] + p[<<"S", 3>>] + p[<<"S", 4>>]

\* What the random source yields in the runs: the first seven balls of the
\* shuffle and the Powerball.
Shuffles ==
  {[balls |-> <<1, 2, 3, 4, 5, 6, 7>>, pb |-> 1],
   [balls |-> <<2, 1, 4, 3, 6, 5, 7>>, pb |-> 2]}

\* draw_lotto: main6 in drawn order, the bonus, the Powerball
draw_lotto ==
  {[main6 |-> SubSeq(r.balls, 1, 6), bonus |-> r.balls[7], pb |-> r.pb] :
     r \in Shuffles}

\* ----------------------------------------------------------- initial state

ZeroTally == [c \in Codes |-> 0]

\* The module-level setup and init_vars, with the ticket typed, the two
\* checkboxes set and the base numbers entered before the first draw.
InitWith(text, powerball, strike, base) ==
  /\ ticket_text = text
  /\ stats = ZeroTally
  /\ paid = ZeroTally
  /\ spend = 0
  /\ returns = 0
  /\ draw_number = 0
  /\ speed_var = DEFAULT_SPEED
  /\ powerball_var = powerball
  /\ strike_var = strike
  /\ V = base
  /\ base_numbers_var =
       (IF base = <<>> THEN [label |-> "", nums |-> <<>>]
        ELSE [label |-> "Base: ", nums |-> [i \in 1..Len(base) |-> z2(base[i])]])
  /\ running = FALSE
  /\ after_id = None
  /\ timers = {}
  /\ batch_left = 0
  /\ status_var = (IF base = <<>> THEN "Ready." ELSE "Base numbers set:")
  /\ last_draw = None
  /\ msgbox = ""

Init == InitWith(<<>>, FALSE, FALSE, <<>>)

Config == <<speed_var, powerball_var, strike_var>>
Base == <<V, base_numbers_var>>
Ledger == <<stats, paid, spend, returns>>
Autorun == <<running, after_id, timers, batch_left>>

\* ------------------------------------------------------------- draw cycle

\* do_draw_once counting the draw before it looks at the ticket.
do_draw_once_CountsFirst ==
  LET lines == parse_ticket_lines(ticket_text) IN
  IF lines = <<>>
    THEN /\ draw_number' = draw_number + 1
         /\ status_var' = "No valid ticket lines. Add some first."
         /\ UNCHANGED <<last_draw, stats, paid, spend, returns>>
    ELSE \E d \in draw_lotto :
           LET r == ScoreLines([stats |-> stats, paid |-> paid], 0, lines, d, strike_var)
           IN /\ draw_number' = draw_number + 1
              /\ last_draw' = Some(d)
              /\ stats' = r.L.stats
              /\ paid' = r.L.paid
              /\ spend' = spend + r.cost
              /\ returns' = SumPaid(r.L.paid)
              /\ status_var' = "Draw done."

\* do_draw_once, on the variables it writes.
do_draw_once ==
  LET lines == parse_ticket_lines(ticket_text) IN
  IF lines = <<>>
    THEN /\ status_var' = "No valid ticket lines. Add some first."
         /\ UNCHANGED <<draw_number, last_draw, stats, paid, spend, returns>>
    ELSE \E d \in draw_lotto :
           LET r == ScoreLines([stats |-> stats, paid |-> paid], 0, lines, d, strike_var)
           IN /\ draw_number' = draw_number + 1
              /\ last_draw' = Some(d)
              /\ stats' = r.L.stats
              /\ paid' = r.L.paid
              /\ spend' = spend + r.cost
              /\ returns' = SumPaid(r.L.paid)
              /\ status_var' = "Draw done."

\* Room under MaxDraws for n more draw cycles on the current ticket.
RoomFor(n) ==
  parse_ticket_lines(ticket_text) = <<>> \/ draw_number + n <= MaxDraws

\* ---------------------------------------------------------------- autorun

\* root.after: the id of the callback it schedules.  Tk numbers its ids
\* upwards; the least id no scheduled callback holds stands for the next one.
NewId(held) ==
  CHOOSE n \in 1..(Cardinality(held) + 1) : n \notin held

\* schedule_next, entered with `pending` the callbacks still scheduled.  At
\* rates up to 1000 it runs one draw cycle and schedules the next tick; above,
\* it enters its batch loop, which BatchDraw steps through.
schedule_next(pending) ==
  IF ~running'
    THEN /\ timers' = pending
         /\ UNCHANGED <<after_id, batch_left, draw_number, last_draw, Ledger, status_var>>
    ELSE LET s == Max(1, speed_var) IN
         IF s <= 1000
           THEN /\ RoomFor(1)
                /\ do_draw_once
                /\ LET id == NewId(pending)
                   IN after_id' = Some(id) /\ timers' = pending \cup {id}
                /\ UNCHANGED batch_left
           ELSE /\ RoomFor(Max(1, s \div 1000))
                /\ batch_left' = Max(1, s \div 1000)
                /\ timers' = pending
                /\ UNCHANGED <<after_id, draw_number, last_draw, Ledger, status_var>>

\* start_autorun without its test of state["running"].
start_autorun_NoGuard ==
  /\ batch_left = 0 /\ msgbox = ""
  /\ running' = TRUE
  /\ schedule_next(timers)
  /\ UNCHANGED <<ticket_text, Config, Base, msgbox>>

start_autorun ==
  /\ batch_left = 0 /\ msgbox = ""
  /\ IF running
       THEN UNCHANGED <<Autorun, draw_number, last_draw, Ledger, status_var>>
       ELSE running' = TRUE /\ schedule_next(timers)
  /\ UNCHANGED <<ticket_text, Config, Base, msgbox>>

\* A scheduled callback comes due: Tk takes it off its queue and calls
\* schedule_next.
Tick ==
  /\ batch_left = 0
  /\ \E id \in timers :
       /\ UNCHANGED running
       /\ schedule_next(timers \ {id})
  /\ UNCHANGED <<ticket_text, Config, Base, msgbox>>

\* One pass of the batch loop of schedule_next; the last pass schedules the
\* next tick.
BatchDraw ==
  /\ batch_left > 0
  /\ do_draw_once
  /\ batch_left' = batch_left - 1
  /\ IF batch_left = 1
       THEN LET id == NewId(timers)
            IN after_id' = Some(id) /\ timers' = timers \cup {id}
       ELSE UNCHANGED <<after_id, timers>>
  /\ UNCHANGED <<ticket_text, Config, Base, running, msgbox>>

\* pause_autorun clearing the flag and leaving the callback scheduled.
pause_autorun_NoCancel ==
  /\ batch_left = 0 /\ msgbox = ""
  /\ running' = FALSE
  /\ after_id' = None
  /\ status_var' = "Paused."
  /\ UNCHANGED <<ticket_text, Config, Base, Ledger, draw_number, last_draw,
                 batch_left, msgbox, timers>>

pause_autorun ==
  /\ batch_left = 0 /\ msgbox = ""
  /\ running' = FALSE
  /\ after_id' = None
  /\ timers' = timers \ Range(after_id)
  /\ status_var' = "Paused."
  /\ UNCHANGED <<ticket_text, Config, Base, Ledger, draw_number, last_draw,
                 batch_left, msgbox>>

\* on_reset leaving the Strike toggle as it is.
on_reset_KeepsStrike ==
  /\ batch_left = 0 /\ msgbox = ""
  /\ running' = FALSE
  /\ after_id' = None
  /\ timers' = timers \ Range(after_id)
  /\ ticket_text' = <<>>
  /\ stats' = [c \in Codes |-> 0]
  /\ paid' = [c \in Codes |-> 0]
  /\ spend' = 0
  /\ returns' = SumPaid(paid')
  /\ speed_var' = DEFAULT_SPEED
  /\ powerball_var' = FALSE
  /\ base_numbers_var' = [label |-> "", nums |-> <<>>]
  /\ V' = <<>>
  /\ last_draw' = None
  /\ draw_number' = 0
  /\ status_var' = "Reset complete."
  /\ UNCHANGED <<batch_left, msgbox, strike_var>>

on_reset ==
  /\ batch_left = 0 /\ msgbox = ""
  /\ running' = FALSE
  /\ after_id' = None
  /\ timers' = timers \ Range(after_id)
  /\ ticket_text' = <<>>
  /\ stats' = [c \in Codes |-> 0]
  /\ paid' = [c \in Codes |-> 0]
  /\ spend' = 0
  /\ returns' = SumPaid(paid')
  /\ speed_var' = DEFAULT_SPEED
  /\ powerball_var' = FALSE
  /\ strike_var' = FALSE
  /\ base_numbers_var' = [label |-> "", nums |-> <<>>]
  /\ V' = <<>>
  /\ last_draw' = None
  /\ draw_number' = 0
  /\ status_var' = "Reset complete."
  /\ UNCHANGED <<batch_left, msgbox>>

\* The Single DRAW button.
SingleDraw ==
  /\ batch_left = 0 /\ msgbox = ""
  /\ RoomFor(1)
  /\ do_draw_once
  /\ UNCHANGED <<ticket_text, Config, Base, Autorun, msgbox>>

\* ------------------------------------------------------------ base numbers

RECURSIVE SortedSeq(_)
SortedSeq(S) ==
  IF S = {} THEN <<>>
  ELSE LET lo == CHOOSE x \in S : \A y \in S : x <= y
       IN <<lo>> \o SortedSeq(S \ {lo})

\* BaseVals without the range filter.
BaseVals_NoRange(parts) ==
  SortedSeq({parts[i].v : i \in 1..Len(parts)})

\* The in-range values of the parts, sorted, without repeats.
BaseVals(parts) ==
  SortedSeq({parts[i].v : i \in {j \in 1..Len(parts) : InMainRange(parts[j].v)}})

\* set_base_numbers with `s` what the dialog returned: None when it was
\* cancelled or left empty, else Some(parts), the text split at blanks and
\* commas.  A message box stays on screen until the player dismisses it.
set_base_numbers(s) ==
  /\ batch_left = 0 /\ msgbox = ""
  /\ IF s = None
       THEN UNCHANGED <<V, base_numbers_var, status_var, msgbox>>
       ELSE IF \E i \in 1..Len(s[1]) : s[1][i].k # "num"
         THEN /\ msgbox' = "showerror: Could not parse numbers."
              /\ UNCHANGED <<V, base_numbers_var, status_var>>
         ELSE IF BaseVals(s[1]) = <<>>
           THEN /\ msgbox' = "showwarning: No valid numbers found."
                /\ UNCHANGED <<V, base_numbers_var, status_var>>
           ELSE /\ V' = BaseVals(s[1])
                /\ base_numbers_var' =
                     [label |-> "Base: ", nums |-> [i \in 1..Len(V') |-> z2(V'[i])]]
                /\ status_var' = "Base numbers set:"
                /\ UNCHANGED msgbox
  /\ UNCHANGED <<ticket_text, Config, Ledger, draw_number, last_draw, Autorun>>

clear_wheel_and_base ==
  /\ batch_left = 0 /\ msgbox = ""
  /\ V' = <<>>
  /\ base_numbers_var' = [label |-> "", nums |-> <<>>]
  /\ ticket_text' = <<>>
  /\ status_var' = "Cleared base and ticket."
  /\ UNCHANGED <<Config, Ledger, draw_number, last_draw, Autorun, msgbox>>

\* ------------------------------------------------- quick picks and wheels

\* sorted(rng.sample(range(1, 41), 6)), ten times: the samples of the runs
QuickPicks ==
  <<<<1, 2, 3, 4, 5, 7>>, <<1, 2, 3, 4, 8, 9>>, <<1, 2, 3, 10, 20, 30>>,
    <<2, 4, 6, 7, 21, 35>>, <<5, 6, 11, 12, 13, 14>>, <<8, 9, 10, 11, 12, 13>>,
    <<1, 3, 5, 6, 7, 40>>, <<15, 16, 17, 18, 19, 20>>, <<3, 4, 5, 6, 22, 33>>,
    <<1, 2, 34, 36, 38, 39>>>>

\* rng.randrange(1, 11) for the i-th line added: the values of the runs
RandPb(i) == ((i - 1) % PB_MAX) + 1

\* The lines add_ticket_line appends for the number lists given.
NewLines(lists) ==
  [i \in 1..Len(lists) |->
     add_ticket_line(lists[i], IF powerball_var THEN Some(RandPb(i)) ELSE None,
                     strike_var)]

\* The QP10 button.
qp10 ==
  /\ batch_left = 0 /\ msgbox = ""
  /\ Len(ticket_text) + Len(QuickPicks) <= MaxTicketLines
  /\ ticket_text' = ticket_text \o NewLines(QuickPicks)
  /\ status_var' = "Added 10 Quick Picks."
  /\ UNCHANGED <<Config, Base, Ledger, draw_number, last_draw, Autorun, msgbox>>

\* itertools.combinations(s, r): the r-element subsequences of s, in
\* lexicographic order of their positions
PrefixEach(x, seqs) == [i \in 1..Len(seqs) |-> <<x>> \o seqs[i]]

RECURSIVE combinations(_, _)
combinations(s, r) ==
  IF r = 0 THEN <<<<>>>>
  ELSE IF Len(s) < r THEN <<>>
  ELSE PrefixEach(Head(s), combinations(Tail(s), r - 1)) \o combinations(Tail(s), r)

\* sorted(rng.sample(range(1, 41), m)): the sample of the runs, for m = 7
WheelSample == <<1, 2, 4, 8, 9, 10, 11>>

\* The wheel buttons of the runs: SYSTEM7.  SYSTEM8 to SYSTEM11 write 28 to
\* 462 lines, more than MaxTicketLines.
WheelSizes == {Len(WheelSample)}

\* The SYSTEM<m> button: every 6-combination of the base numbers, which are
\* V when V holds m numbers and a random sample otherwise.
system_wheel(m) ==
  LET base == IF Len(V) = m THEN V ELSE WheelSample
      combs == combinations(base, 6)
  IN /\ batch_left = 0 /\ msgbox = ""
     /\ Len(ticket_text) + Len(combs) <= MaxTicketLines
     /\ ticket_text' = ticket_text \o NewLines(combs)
     /\ status_var' = "SYSTEM wheel produced lines."
     /\ UNCHANGED <<Config, Base, Ledger, draw_number, last_draw, Autorun, msgbox>>

\* ------------------------------------------------------------- user input

\* Seven base numbers as typed, unsorted and with a repeat.
WheelEntry ==
  <<Num(11), Num(1), Num(2), Num(3), Num(8), Num(9), Num(10), Num(11)>>

\* What the base-numbers dialog returns in the runs.
Entries ==
  {None, Some(<<>>), Some(WheelEntry), Some(<<Num(5), Num(41)>>),
   Some(<<Num(0), Num(41)>>), Some(<<Num(5), Junk>>)}

\* The ticket texts the player types in the simulation runs.
TicketTexts ==
  {<<<<Tok("#", 0), Num(1), Num(2), Num(3), Num(4), Num(5), Num(6)>>,
     <<Num(41), Junk, Num(1), Num(2), Num(3)>>>>,
   <<add_ticket_line(<<7, 5, 4, 3, 2, 1>>, Some(1), TRUE),
     <<Num(0), Num(8), Num(9), Num(10), Tok("PB", 0), Junk, Num(11), Num(12),
       Num(13), Num(14), Tok("PB=", 11)>>>>}

\* The rates the player sets in the runs.
SpeedChoices == {1000, 2000, DEFAULT_SPEED}

\* The player edits the ticket Text widget: any change of the ticket text
\* between draws, typed or added by a button.
EditTicket ==
  /\ batch_left = 0 /\ msgbox = ""
  /\ \E text \in TicketTexts \ {ticket_text} : ticket_text' = text
  /\ UNCHANGED <<Config, Base, Ledger, draw_number, last_draw, Autorun,
                 status_var, msgbox>>

TogglePowerball ==
  /\ batch_left = 0 /\ msgbox = ""
  /\ powerball_var' = ~powerball_var
  /\ UNCHANGED <<ticket_text, speed_var, strike_var, Base, Ledger, draw_number,
                 last_draw, Autorun, status_var, msgbox>>

ToggleStrike ==
  /\ batch_left = 0 /\ msgbox = ""
  /\ strike_var' = ~strike_var
  /\ UNCHANGED <<ticket_text, speed_var, powerball_var, Base, Ledger, draw_number,
                 last_draw, Autorun, status_var, msgbox>>

SetSpeed ==
  /\ batch_left = 0 /\ msgbox = ""
  /\ \E s \in SpeedChoices \ {speed_var} : speed_var' = s
  /\ UNCHANGED <<ticket_text, powerball_var, strike_var, Base, Ledger, draw_number,
                 last_draw, Autorun, status_var, msgbox>>

SetBaseNumbers == \E s \in Entries : set_base_numbers(s)

\* The player dismisses the message box.
DismissBox ==
  /\ batch_left = 0
  /\ msgbox # ""
  /\ msgbox' = ""
  /\ UNCHANGED <<ticket_text, Config, Base, Ledger, draw_number, last_draw, Autorun,
                 status_var>>

\* ---------------------------------------------------------- specifications

Next ==
  \/ EditTicket
  \/ TogglePowerball
  \/ ToggleStrike
  \/ SetSpeed
  \/ SetBaseNumbers
  \/ DismissBox
  \/ clear_wheel_and_base
  \/ SingleDraw
  \/ start_autorun
  \/ Tick
  \/ BatchDraw
  \/ pause_autorun
  \/ on_reset

Spec == Init /\ [][Next]_vars

\* The scoring runs: one draw on a ticket of one line as add_ticket_line
\* writes it, or on a ticket the QP10 and SYSTEM buttons built, the
\* checkboxes either way.
TypedOrders(S) ==
  LET up == SortedSeq(S)
  IN {up, [i \in 1..Len(up) |-> up[Len(up) + 1 - i]]}

\* Lines typed with a number repeated.
RepeatedLines == {<<5, 5, 5, 5, 5, 5>>, <<1, 2, 3, 4, 5, 5>>}

\* Lines with at most two of the numbers the runs draw, up to 40.
FarLines ==
  {<<1, 2, 36, 38, 39, 40>>, <<1, 7, 37, 38, 39, 40>>, <<6, 36, 37, 38, 39, 40>>,
   <<7, 21, 22, 23, 24, 25>>, <<35, 36, 37, 38, 39, 40>>}

ScoreTickets ==
  {[nums |-> nums, pb |-> pb] :
     nums \in RepeatedLines \cup FarLines \cup
       UNION {TypedOrders(S) : S \in {T \in SUBSET (1..PoolN) : Cardinality(T) = 6}},
     pb \in {None} \cup {Some(d.pb) : d \in draw_lotto}}

InitScore ==
  \/ \E line \in ScoreTickets, strike \in BOOLEAN :
       InitWith(<<add_ticket_line(line.nums, line.pb, strike)>>, FALSE, strike, <<>>)
  \/ \E powerball \in BOOLEAN, strike \in BOOLEAN, base \in {<<>>, BaseVals(WheelEntry)} :
       InitWith(<<>>, powerball, strike, base)

ScoreDraw == draw_number = 0 /\ SingleDraw
ScoreQuickPicks == draw_number = 0 /\ qp10
ScoreWheel == draw_number = 0 /\ \E m \in WheelSizes : system_wheel(m)

NextScore ==
  \/ ScoreQuickPicks
  \/ ScoreWheel
  \/ ScoreDraw

SpecScore == InitScore /\ [][NextScore]_vars

\* ------------------------------------------------------------------ claims

\* The reference division of section 4.3: m numbers of the line among the
\* six main numbers, b the bonus among the line's numbers; 0 is none.
RefDivision(m, b) ==
  CASE m = 6 -> 1
    [] m = 5 /\ b -> 2
    [] m = 5 /\ ~b -> 3
    [] m = 4 /\ b -> 4
    [] m = 4 /\ ~b -> 5
    [] m = 3 /\ b -> 6
    [] m = 3 /\ ~b -> 7
    [] OTHER -> 0

\* The line of a one-line ticket, and the draw it met.
ScoredLine == parse_ticket_lines(ticket_text)[1]
ScoredDraw == last_draw[1]

\* One draw cycle has scored a ticket of one line.
OneScored ==
  /\ draw_number = 1
  /\ Len(parse_ticket_lines(ticket_text)) = 1

\* ... and the line has 6 distinct numbers in 1..40.
Scored ==
  /\ OneScored
  /\ Cardinality(Range(ScoredLine.nums)) = 6
  /\ Range(ScoredLine.nums) \subseteq 1..NUM_MAX

\* C1: a line of 6 distinct numbers in 1..40 scored against a draw gets at
\* most one main-game award, the one of the reference division of (m, b),
\* and the amount is the higher table's entry iff the line declared a
\* Powerball equal to the one drawn, else the lower table's; with m < 3
\* nothing is awarded, Powerball matched or not.
C1_MainGameAward ==
  Scored =>
    LET m == Cardinality(Range(ScoredLine.nums) \cap Range(ScoredDraw.main6))
        b == ScoredDraw.bonus \in Range(ScoredLine.nums)
        div == RefDivision(m, b)
        higher == ScoredLine.pb # None /\ ScoredLine.pb[1] = ScoredDraw.pb
    IN \A k \in 1..7 :
         /\ stats[<<"D", k>>] = (IF k = div THEN 1 ELSE 0)
         /\ paid[<<"D", k>>] =
              (IF k # div THEN 0
               ELSE IF higher THEN LOTTO_WITH_PB[k] ELSE LOTTO_NO_PB[k])

\* A line with five main numbers and the bonus, its Powerball matched, has
\* won division 2 at the higher amount.
C1_Witness ==
  /\ Scored
  /\ Cardinality(Range(ScoredLine.nums) \cap Range(ScoredDraw.main6)) = 5
  /\ ScoredDraw.bonus \in Range(ScoredLine.nums)
  /\ ScoredLine.pb = Some(ScoredDraw.pb)
  /\ stats[<<"D", 2>>] = 1
  /\ paid[<<"D", 2>>] = 325600

\* The positions, of the first four, where the typed and the drawn number agree.
RefHits(typed, drawn) ==
  (IF typed[1] = drawn[1] THEN 1 ELSE 0) + (IF typed[2] = drawn[2] THEN 1 ELSE 0)
    + (IF typed[3] = drawn[3] THEN 1 ELSE 0) + (IF typed[4] = drawn[4] THEN 1 ELSE 0)

\* C2: the side bet is scored only when Strike is on, whatever the main game
\* gave: with hits the positions 1..4 where the typed number equals the
\* drawn one, hits >= 1 records exactly one award, of tier S<hits> at its
\* payout; hits = 0 or Strike off leaves every S1..S4 count and amount alone.
C2_SideBetAward ==
  OneScored =>
    LET hits == RefHits(ScoredLine.nums, ScoredDraw.main6)
    IN \A k \in 1..4 :
         /\ stats[<<"S", k>>] = (IF strike_var /\ k = hits THEN 1 ELSE 0)
         /\ paid[<<"S", k>>] = (IF strike_var /\ k = hits THEN STRIKE_PAYOUT[k] ELSE 0)

\* Strike on, typed 6,5,4,3,2,1 against drawn 1,2,3,4,5,6: division 1 and no
\* side-bet award.
C2_Witness ==
  /\ Scored
  /\ strike_var
  /\ ScoredLine.nums = <<6, 5, 4, 3, 2, 1>>
  /\ ScoredDraw.main6 = <<1, 2, 3, 4, 5, 6>>
  /\ stats[<<"D", 1>>] = 1
  /\ \A k \in 1..4 : stats[<<"S", k>>] = 0 /\ paid[<<"S", k>>] = 0

WellFormedLine(line) ==
  /\ Len(line.nums) = 6
  /\ Cardinality(Range(line.nums)) = 6
  /\ Range(line.nums) \subseteq 1..NUM_MAX
  /\ line.pb = None \/ line.pb[1] \in 1..PB_MAX

\* C3: every line a draw cycle passes to the scoring engine has exactly 6
\* pairwise distinct numbers in 1..40 and a Powerball that is absent or in
\* 1..10.
C3_ScoredLinesWellFormed ==
  status_var = "Draw done." =>
    \A i \in 1..Len(parse_ticket_lines(ticket_text)) :
      WellFormedLine(parse_ticket_lines(ticket_text)[i])

\* The cost of one line by the claim: 1.50 with a Powerball, 0.70 without,
\* 1.00 more when Strike is on.
RefLineCost(line, strike) ==
  (IF line.pb = None THEN 7 ELSE 15) + (IF strike THEN 10 ELSE 0)

RECURSIVE RefCycleCost(_, _)
RefCycleCost(lines, strike) ==
  IF lines = <<>> THEN 0
  ELSE RefLineCost(lines[1], strike) + RefCycleCost(Tail(lines), strike)

\* C4: a draw cycle that scores at least one line adds to the spend exactly
\* the sum of the costs of the lines scored, whatever the draw and whatever
\* the lines win; no other step but a reset changes the spend.
C4_SpendPerCycle ==
  [][\/ /\ draw_number' = draw_number
        /\ spend' = spend
     \/ /\ draw_number' = draw_number + 1
        /\ spend' = spend + RefCycleCost(parse_ticket_lines(ticket_text), strike_var)
     \/ on_reset]_vars

\* Two cycles on the two-line ticket with a Powerball line, Strike on:
\* 2 * (2.50 + 1.70).
C4_Witness ==
  /\ draw_number = 2
  /\ Len(parse_ticket_lines(ticket_text)) = 2
  /\ spend = 84

\* C5: with no reset, the returns, the spend and every code's hit count and
\* amount paid never decrease from one step to the next.
C5_LedgerMonotone ==
  [][\/ /\ returns' >= returns
        /\ spend' >= spend
        /\ \A c \in Codes : stats'[c] >= stats[c] /\ paid'[c] >= paid[c]
     \/ on_reset]_vars

\* Two draws have paid the same division twice.
C5_Witness ==
  /\ draw_number = 2
  /\ \E c \in Codes : stats[c] >= 2 /\ paid[c] > 0
  /\ returns > 0

\* C6: a reset, from any state, yields the initial state: tallies, spend,
\* returns, balance and draw counter 0, not running and no callback
\* scheduled, ticket and base numbers empty, toggles and rate at their defaults.
C6_ResetComplete ==
  [][on_reset =>
       /\ \A c \in Codes : stats'[c] = 0 /\ paid'[c] = 0
       /\ spend' = 0 /\ returns' = 0 /\ returns' - spend' = 0
       /\ draw_number' = 0
       /\ ~running' /\ timers' = {} /\ after_id' = None /\ batch_left' = 0
       /\ ticket_text' = <<>>
       /\ V' = <<>> /\ base_numbers_var'.label = "" /\ base_numbers_var'.nums = <<>>
       /\ ~powerball_var' /\ ~strike_var' /\ speed_var' = DEFAULT_SPEED
       /\ last_draw' = None]_vars

\* A reset has run.
C6_Witness ==
  /\ status_var = "Reset complete."
  /\ ~running /\ timers = {}
  /\ draw_number = 0 /\ spend = 0 /\ returns = 0
  /\ ticket_text = <<>> /\ V = <<>>

\* C7: a draw cycle on a ticket text without a valid line leaves the draw
\* counter, the tallies, the spend, the returns and the last draw as they
\* are; of the core state it sets the status message only.
C7_NoLinesNoOp ==
  [][\/ /\ UNCHANGED <<draw_number, stats, paid, spend, returns, last_draw>>
        /\ UNCHANGED <<ticket_text, Config, Base, running>>
        /\ \/ status_var' = "No valid ticket lines. Add some first."
           \/ ~(SingleDraw \/ BatchDraw \/ (Tick /\ batch_left' = 0))
     \/ parse_ticket_lines(ticket_text) # <<>>
     \/ ~(SingleDraw \/ Tick \/ BatchDraw)]_vars

\* A cycle found no valid line after two draws had been scored.
C7_Witness ==
  /\ status_var = "No valid ticket lines. Add some first."
  /\ draw_number = 2
  /\ returns > 0

\* C8: a pause clears the running flag and leaves no callback scheduled, and
\* keeps the draw counter and the tallies; while the flag stays clear no
\* callback is scheduled and only a single draw or a reset changes the draw
\* counter or the ledger; a batch under way is never paused.
C8_PauseStopsAutorun ==
  [][/\ pause_autorun =>
          /\ ~running' /\ timers' = {} /\ after_id' = None
          /\ UNCHANGED <<draw_number, stats, paid, spend, returns>>
     /\ ~running' => timers' = {}
     /\ (~running /\ ~running') =>
          \/ UNCHANGED <<draw_number, stats, paid, spend, returns>>
          \/ SingleDraw
          \/ on_reset
     /\ batch_left > 0 => (BatchDraw /\ running /\ running')]_vars

\* Paused after two draws of the autorun.
C8_Witness ==
  /\ status_var = "Paused."
  /\ ~running /\ timers = {}
  /\ draw_number = 2 /\ returns > 0

\* The entries the claim is about: a part that is no number, or a number
\* outside 1..40.
HasNonNumber(s) == s # None /\ \E i \in 1..Len(s[1]) : s[1][i].k # "num"
HasOutOfRange(s) ==
  s # None /\ \E i \in 1..Len(s[1]) : s[1][i].k = "num" /\ s[1][i].v \notin 1..NUM_MAX
HasInRange(s) ==
  s # None /\ \E i \in 1..Len(s[1]) : s[1][i].k = "num" /\ s[1][i].v \in 1..NUM_MAX

AllButBox ==
  <<ticket_text, stats, paid, spend, returns, draw_number, speed_var, powerball_var,
    strike_var, V, base_numbers_var, running, after_id, timers, batch_left,
    status_var, last_draw>>

\* C9 as stated: an entry with a non-numeric part or a number outside 1..40
\* raises a message box and changes nothing else.
C9_BadEntryNoMutation ==
  [][\A s \in Entries :
       (HasNonNumber(s) \/ HasOutOfRange(s)) /\ set_base_numbers(s) =>
         msgbox' # "" /\ UNCHANGED AllButBox]_vars

\* C9 as amended: an entry with a non-numeric part, or with no number in
\* 1..40, raises a message box and changes nothing else; an entry of numbers
\* with one in 1..40 raises none, and the base numbers become its numbers
\* in 1..40, sorted, the others dropped.
C9_BadEntryAmended ==
  [][\A s \in Entries :
       set_base_numbers(s) =>
         /\ (HasNonNumber(s) \/ (s # None /\ ~HasInRange(s))) =>
              msgbox' # "" /\ UNCHANGED AllButBox
         /\ (HasOutOfRange(s) /\ ~HasNonNumber(s) /\ HasInRange(s)) =>
              /\ msgbox' = ""
              /\ Range(V') = {s[1][i].v : i \in 1..Len(s[1])} \cap (1..NUM_MAX)
              /\ \A i \in 1..(Len(V') - 1) : V'[i] < V'[i + 1]]_vars

\* A message box is up and the base numbers set before are still there.
C9_Witness ==
  /\ msgbox # ""
  /\ V # <<>>
  /\ base_numbers_var.label = "Base: "

\* C10: at most one callback is ever scheduled, and between events one is
\* scheduled iff the running flag is set, the one after_id names; start_autorun
\* while running runs no draw cycle and schedules nothing; a single draw
\* changes neither the flag nor the scheduled callback.
TimerInv ==
  /\ Cardinality(timers) <= 1
  /\ batch_left = 0 => ((timers # {}) <=> running)
  /\ (batch_left = 0 /\ running) => timers = Range(after_id)

C10_OneTickIffRunning ==
  /\ TimerInv
  /\ [][/\ TimerInv'
        /\ (running /\ start_autorun) =>
             UNCHANGED <<timers, after_id, running, batch_left, draw_number,
                         stats, paid, spend, returns>>
        /\ UNCHANGED <<running, timers, after_id>> \/ ~SingleDraw]_vars

\* Running with its one callback scheduled after two ticks' draws.
C10_Witness ==
  /\ running /\ batch_left = 0
  /\ Cardinality(timers) = 1
  /\ draw_number = 2

====
